---- MODULE Spec2Model ----
(***************************************************************************)
(* Model of the RCM C front-end, src/RCM-cli/Rcm-cli.c: main() forwards    *)
(* the argument vector of the process to rcm_run() of the library and      *)
(* returns its result; with no user argument it first prints a banner      *)
(* carrying rcm_version() and forwards {"rcm", "--help"} instead.          *)
(*                                                                         *)
(* A C pointer that may be null is an option value: <<>> is the            *)
(* null pointer, <<s>> a pointer to the string s.  An argument vector is   *)
(* the sequence of its tokens.  The program counter pc names the line of   *)
(* Rcm-cli.c that executes next.                                           *)
(*                                                                         *)
(* out is the sequence of writes main makes to the stdout stream, in       *)
(* program order; events is the sequence of calls main makes and of its    *)
(* return, as a test double of the library would record them.  What the    *)
(* library writes, and when the C runtime flushes the stream to the file   *)
(* descriptor, are outside main and are not modelled.                      *)
(***************************************************************************)
EXTENDS Integers, Sequences, FiniteSets, TLC

VARIABLES pc, argc, argv, ver, helpv, out, events, verCalls, verReads,
          runCalls, runRet, mainRet

vars == <<pc, argc, argv, ver, helpv, out, events, verCalls, verReads,
          runCalls, runRet, mainRet>>

(* ------------------------------ bounds --------------------------------- *)

\* Largest argument count the operating system delivers in the model.
MaxArgc == 3

\* rcm_run returns every status in -MaxStatus .. MaxStatus (and the values
\* of StatusValues that sit at the edges of int and of the 8-bit wait status).
MaxStatus == 2

(* ------------------------------ inputs --------------------------------- *)

\* Tokens of the argument vector delivered by the operating system.
Tokens == {"rcm", "status", "--help"}

\* Argument vectors of exactly n tokens.
ArgVectors(n) == [1..n -> Tokens]

\* The null pointer.
NULL == <<>>

\* Results of rcm_version(): a static string, or NULL.
VersionResults == {NULL, <<"1.2.0">>, <<"">>}

\* Results of rcm_run(): any int.
StatusValues == (-MaxStatus .. MaxStatus) \cup {-2147483647 - 1, -256, 255, 256, 2147483647}

(* --------------------------- main's pieces ----------------------------- *)

IsBareOffByOne(c) == c <= 2

\* Rcm-cli.c:12  if (argc <= 1)
IsBare(c) == c <= 1

SubstSkipped(v) == v

\* Rcm-cli.c:14  ver ? ver : "unknown"
Subst(v) == IF v # NULL THEN v ELSE <<"unknown">>

\* Rcm-cli.c:14  the format "RCM CLI (C front-end) - %s\n" applied to a string
Banner(text) == "RCM CLI (C front-end) - " \o text \o "\n"

\* Rcm-cli.c:14  fprintf(stdout, "... %s\n", p): what a call can do.  A null
\* pointer for %s is undefined behaviour: the common C libraries either
\* fault or print "(null)".
Fprintf(p) ==
    IF p = NULL
    THEN {[crash |-> TRUE, text |-> ""], [crash |-> FALSE, text |-> Banner("(null)")]}
    ELSE {[crash |-> FALSE, text |-> Banner(p[1])]}

HelpvShortFlag == <<"rcm", "-h">>

\* Rcm-cli.c:15  const char* helpv[] = {"rcm", "--help"};
Helpv == <<"rcm", "--help">>

HelpCountThree == 2 + 1

\* Rcm-cli.c:16  the count of rcm_run(2, helpv)
HelpCount == 2

ForwardedWithoutName(c, v) == [argc |-> c - 1, argv |-> Tail(v)]

\* Rcm-cli.c:18  the arguments of rcm_run(argc, argv)
Forwarded(c, v) == [argc |-> c, argv |-> v]

ExitStatusBoolean(r) == IF r = 0 THEN 0 ELSE 1

\* Rcm-cli.c:16,18  return rcm_run(...): the value main returns for result r
ExitStatus(r) == r

(* ------------------------------ state ---------------------------------- *)

\* The process as the operating system starts it: argv holds argc tokens.
Init ==
    /\ pc = "l12"
    /\ argc \in 0..MaxArgc
    /\ argv \in ArgVectors(argc)
    /\ ver = NULL
    /\ helpv = <<>>
    /\ out = <<>>
    /\ events = <<>>
    /\ verCalls = 0
    /\ verReads = 0
    /\ runCalls = <<>>
    /\ runRet = 0
    /\ mainRet = 0

(* ------------------------------ steps ---------------------------------- *)

\* Rcm-cli.c:12  the test of the argument count
Branch ==
    /\ pc = "l12"
    /\ pc' = IF IsBare(argc) THEN "l13" ELSE "l18"
    /\ UNCHANGED <<argc, argv, ver, helpv, out, events, verCalls, verReads,
                   runCalls, runRet, mainRet>>

\* Rcm-cli.c:13  const char* ver = rcm_version();
CallVersion ==
    /\ pc = "l13"
    /\ \E v \in VersionResults : ver' = v
    /\ verCalls' = verCalls + 1
    /\ events' = Append(events, "rcm_version")
    /\ pc' = "l14"
    /\ UNCHANGED <<argc, argv, helpv, out, verReads, runCalls, runRet, mainRet>>

PrintBannerRefetch ==
    /\ pc = "l14"
    /\ \E o \in Fprintf(Subst(ver)) :
          IF o.crash
          THEN pc' = "crashed" /\ out' = out
          ELSE pc' = "l15" /\ out' = Append(out, o.text)
    /\ verReads' = verReads + 1
    /\ verCalls' = verCalls + 1
    /\ events' = Append(Append(events, "rcm_version"), "fprintf")
    /\ UNCHANGED <<argc, argv, ver, helpv, runCalls, runRet, mainRet>>

\* Rcm-cli.c:14  fprintf(stdout, "RCM CLI (C front-end) - %s\n", ver ? ver : "unknown");
PrintBanner ==
    /\ pc = "l14"
    /\ \E o \in Fprintf(Subst(ver)) :
          IF o.crash
          THEN pc' = "crashed" /\ out' = out
          ELSE pc' = "l15" /\ out' = Append(out, o.text)
    /\ verReads' = verReads + 1
    /\ events' = Append(events, "fprintf")
    /\ UNCHANGED <<argc, argv, ver, helpv, verCalls, runCalls, runRet, mainRet>>

\* Rcm-cli.c:15  const char* helpv[] = {"rcm", "--help"};
BuildHelpv ==
    /\ pc = "l15"
    /\ helpv' = Helpv
    /\ pc' = "l16"
    /\ UNCHANGED <<argc, argv, ver, out, events, verCalls, verReads,
                   runCalls, runRet, mainRet>>

RunBareFallsThrough ==
    /\ pc = "l16"
    /\ \E r \in StatusValues : runRet' = r
    /\ runCalls' = Append(runCalls, [line |-> 16, argc |-> HelpCount, argv |-> helpv])
    /\ events' = Append(events, "rcm_run")
    /\ pc' = "l18"
    /\ UNCHANGED <<argc, argv, ver, helpv, out, verCalls, verReads, mainRet>>

\* Rcm-cli.c:16  rcm_run(2, helpv): the call and the library's result
RunBare ==
    /\ pc = "l16"
    /\ \E r \in StatusValues : runRet' = r
    /\ runCalls' = Append(runCalls, [line |-> 16, argc |-> HelpCount, argv |-> helpv])
    /\ events' = Append(events, "rcm_run")
    /\ pc' = "ret"
    /\ UNCHANGED <<argc, argv, ver, helpv, out, verCalls, verReads, mainRet>>

\* Rcm-cli.c:18  rcm_run(argc, argv): the call and the library's result
RunNormal ==
    /\ pc = "l18"
    /\ \E r \in StatusValues : runRet' = r
    /\ runCalls' = Append(runCalls, [line |-> 18] @@ Forwarded(argc, argv))
    /\ events' = Append(events, "rcm_run")
    /\ pc' = "ret"
    /\ UNCHANGED <<argc, argv, ver, helpv, out, verCalls, verReads, mainRet>>

ReturnAfterGoodbye ==
    /\ pc = "ret"
    /\ mainRet' = ExitStatus(runRet)
    /\ out' = Append(out, "done\n")
    /\ events' = Append(Append(events, "fprintf"), "return")
    /\ pc' = "done"
    /\ UNCHANGED <<argc, argv, ver, helpv, verCalls, verReads, runCalls, runRet>>

\* Rcm-cli.c:16,18  return <result of rcm_run>;
Return ==
    /\ pc = "ret"
    /\ mainRet' = ExitStatus(runRet)
    /\ events' = Append(events, "return")
    /\ pc' = "done"
    /\ UNCHANGED <<argc, argv, ver, helpv, out, verCalls, verReads, runCalls, runRet>>

Next ==
    \/ Branch
    \/ CallVersion
    \/ PrintBanner
    \/ BuildHelpv
    \/ RunBare
    \/ RunNormal
    \/ Return

Spec == Init /\ [][Next]_vars

(* ------------------------------ claims --------------------------------- *)

\* s is an initial part of t.
IsPrefix(s, t) == Len(s) <= Len(t) /\ \A i \in 1..Len(s) : s[i] = t[i]

\* C1: rcm_run is never called twice, it has been called exactly once when
\* main has returned, and the call of line 16 (bare) and the call of line 18
\* (normal) never both happen in one invocation.
C1_RunExactlyOnce ==
    /\ Len(runCalls) <= 1
    /\ (pc = "done" => Len(runCalls) = 1)
    /\ ~(\E i, j \in 1..Len(runCalls) :
            runCalls[i].line = 16 /\ runCalls[j].line = 18)
    /\ \A i \in 1..Len(runCalls) : (runCalls[i].line = 16) <=> (argc <= 1)

C1_Witness ==
    pc = "done" /\ argc = 0 /\ Len(runCalls) = 1 /\ runCalls[1].line = 16

\* C2: in both branches the value main returns is the value rcm_run returned.
C2_StatusPassThrough == pc = "done" => mainRet = runRet

C2_Witness == pc = "done" /\ argc <= 1 /\ runRet = 256 /\ mainRet = 256

\* C3: with argc > 1, rcm_run receives the count and the vector of the
\* operating system, program name included, and nothing else.
C3_NormalForwardsVerbatim ==
    /\ (argc > 1 /\ pc \in {"ret", "done"}) => Len(runCalls) = 1
    /\ (argc > 1 /\ runCalls # <<>>) =>
          /\ runCalls[1].argc = argc
          /\ runCalls[1].argv = argv

C3_Witness ==
    /\ pc = "done"
    /\ argc = 2
    /\ runCalls # <<>>
    /\ runCalls[1].argc = 2
    /\ runCalls[1].argv = <<"rcm", "status">>

\* C4: with argc <= 1, rcm_run receives the count 2 and the vector
\* {"rcm", "--help"}, whatever the original vector holds.
C4_BareForwardsHelp ==
    /\ (argc <= 1 /\ pc \in {"ret", "done"}) => Len(runCalls) = 1
    /\ (argc <= 1 /\ runCalls # <<>>) =>
          /\ runCalls[1].argc = 2
          /\ runCalls[1].argv = <<"rcm", "--help">>

C4_Witness ==
    /\ pc = "done"
    /\ argc = 1
    /\ argv = <<"status">>
    /\ runCalls # <<>>
    /\ runCalls[1].argv = <<"rcm", "--help">>

\* C5: with argc <= 1, once line 14 has run, standard output holds exactly
\* the one banner line, carrying the version text, or "unknown" for a null
\* version.
C5_BannerLine ==
    (argc <= 1 /\ pc \in {"l15", "l16", "ret", "done"}) =>
        out = << "RCM CLI (C front-end) - "
                   \o (IF ver = <<>> THEN "unknown" ELSE ver[1])
                   \o "\n" >>

C5_Witness ==
    /\ pc = "done"
    /\ argc <= 1
    /\ verCalls = 1
    /\ ver = <<>>
    /\ out = <<"RCM CLI (C front-end) - unknown\n">>

\* C6: main writes nothing to standard output when argc > 1, and exactly
\* one line when argc <= 1.
C6_OutputPerBranch ==
    /\ argc > 1 => out = <<>>
    /\ argc <= 1 => Len(out) <= 1
    /\ (argc <= 1 /\ pc = "done") => Len(out) = 1

C6_Witness == pc = "done" /\ argc > 1 /\ out = <<>> /\ Len(runCalls) = 1

\* C7: a null version is no error: main never faults, and a bare invocation
\* ends with the one call rcm_run(2, {"rcm", "--help"}) and with rcm_run's
\* result as its status, whatever rcm_version returned.
C7_NullVersionDegrades ==
    /\ pc # "crashed"
    /\ \A v \in VersionResults :
          (argc <= 1 /\ pc = "done" /\ ver = v) =>
              /\ runCalls = <<[line |-> 16, argc |-> 2, argv |-> <<"rcm", "--help">>]>>
              /\ mainRet = runRet

C7_Witness ==
    pc = "done" /\ argc <= 1 /\ verCalls = 1 /\ ver = <<>> /\ mainRet = 255

\* C8: a bare invocation calls rcm_version, prints, calls rcm_run and
\* returns, in this order; a normal one calls rcm_run and returns; and the
\* only step after rcm_run's return is main's return, which prints nothing
\* and calls nothing.
C8_EventOrder ==
    /\ [](argc <= 1 => IsPrefix(events, <<"rcm_version", "fprintf", "rcm_run", "return">>))
    /\ [](argc > 1 => IsPrefix(events, <<"rcm_run", "return">>))
    /\ []((argc <= 1 /\ pc = "done") => Len(events) = 4)
    /\ []((argc > 1 /\ pc = "done") => Len(events) = 2)
    /\ [][pc = "ret" =>
             /\ pc' = "done"
             /\ out' = out
             /\ verCalls' = verCalls
             /\ runCalls' = runCalls
             /\ events' = Append(events, "return")]_vars

C8_Witness ==
    /\ pc = "done"
    /\ argc <= 1
    /\ events = <<"rcm_version", "fprintf", "rcm_run", "return">>

\* C9: the count passed to rcm_run is the length of the vector passed to it
\* (2 and two tokens when bare, argc and argv when normal), and main changes
\* neither the vector of the operating system nor helpv once it is built.
C9_VectorInvariant ==
    /\ [](\A i \in 1..Len(runCalls) :
             /\ runCalls[i].argc = Len(runCalls[i].argv)
             /\ argc <= 1 => runCalls[i].argc = 2
             /\ argc > 1 => runCalls[i].argc = argc)
    /\ [](Len(argv) = argc)
    /\ [][argc' = argc /\ argv' = argv]_vars
    /\ [][helpv # <<>> => helpv' = helpv]_vars

C9_Witness ==
    /\ pc = "done"
    /\ argc <= 1
    /\ helpv = <<"rcm", "--help">>
    /\ runCalls # <<>>
    /\ runCalls[1].argc = 2
    /\ Len(runCalls[1].argv) = 2

\* C10: rcm_version is called once when argc <= 1 and never when argc > 1;
\* its result is read by the print of line 14 only, is never changed after
\* the call, and main makes no call other than rcm_version, fprintf and
\* rcm_run (so none that releases it).
C10_VersionUse ==
    /\ [](argc > 1 => verCalls = 0 /\ verReads = 0)
    /\ [](argc <= 1 => verCalls <= 1 /\ verReads <= 1)
    /\ []((argc <= 1 /\ pc \in {"l14", "l15", "l16", "ret", "done"}) => verCalls = 1)
    /\ []((argc <= 1 /\ pc \in {"l15", "l16", "ret", "done"}) => verReads = 1)
    /\ [](\A i \in 1..Len(events) :
             events[i] \in {"rcm_version", "fprintf", "rcm_run", "return"})
    /\ [][verCalls >= 1 => ver' = ver]_vars
    /\ [][pc # "l14" => verReads' = verReads]_vars

C10_Witness ==
    pc = "done" /\ argc <= 1 /\ verCalls = 1 /\ verReads = 1 /\ ver = <<"1.2.0">>

====
